---- MODULE Spec2Model ----
(***************************************************************************)
(* Model of the request-orchestration layer of the RAG backend:           *)
(*   app_fastapi/backend/app.py    setup_clients, ensure_openai_token      *)
(*   app_fastapi/backend/routes.py error_dict, error_response, ask, chat   *)
(*                                                                         *)
(* The runtime is a single-threaded cooperative event loop: the code       *)
(* between two awaits runs without interleaving, so every action below is  *)
(* one such segment, and every state is a point where another coroutine    *)
(* may run.                                                                *)
(***************************************************************************)
EXTENDS Integers, Sequences, FiniteSets, TLC

VARIABLES
    OPENAI_HOST,    \* environment: "azure" or anything else ("openai")
    api_type,       \* openai.api_type
    api_key,        \* openai.api_key
    openai_token,   \* app.state[CONFIG_OPENAI_TOKEN]
    now,            \* time.time()
    startup,        \* position of setup_clients
    startup_resp,   \* identity provider's answer to the startup get_token
    issued,         \* number of tokens the identity provider has issued
    treq,           \* per request: position and locals of ensure_openai_token
    h               \* per request: position and locals of the /ask or /chat handler

tokenVars == <<OPENAI_HOST, api_type, api_key, openai_token, now, startup,
               startup_resp, issued, treq>>
vars == <<OPENAI_HOST, api_type, api_key, openai_token, now, startup,
          startup_resp, issued, treq, h>>

----------------------------------------------------------------------------
(* Bounds of the model *)
NumRequests == 2        \* concurrent requests going through the token check
MaxNow == 7             \* the clock stops advancing here
TokenLifetime == 65     \* seconds a freshly issued token is valid for

(* Program constant: the refresh margin of ensure_openai_token *)
REFRESH_MARGIN == 60

Requests == 1..NumRequests

NoKey == <<"none", 0>>
OPENAI_API_KEY == <<"env", 0>>
NoCredential == [token |-> NoKey, expires_on |-> 0]
NoResponse == [token |-> NoKey, expires_on |-> -1]

(* AccessToken returned by azure_credential.get_token *)
AccessToken(n, t) == [token |-> <<"tok", n>>, expires_on |-> t]

(* Variant: the comparison of app.py:150 written with <= *)
NeedsRefresh_OffByOne(tok, t) == tok.expires_on <= t + REFRESH_MARGIN

(* app.py:150  openai_token.expires_on < time.time() + 60 *)
NeedsRefresh(tok, t) == tok.expires_on < t + REFRESH_MARGIN

NewRequest == [pc |-> "new", openai_token |-> NoCredential, checked_at |-> -1,
               resp |-> NoResponse, key_used |-> NoKey]

----------------------------------------------------------------------------
(* The clock *)
Tick ==
    /\ now < MaxNow
    /\ now' = now + 1
    /\ UNCHANGED <<h, OPENAI_HOST, api_type, api_key, openai_token, startup,
                   startup_resp, issued, treq>>

(* setup_clients up to its only await (app.py:99-103), or to its end when  *)
(* OPENAI_HOST is not "azure" (app.py:107-110).                            *)
SetupClients ==
    /\ startup = "init"
    /\ IF OPENAI_HOST = "azure"
         THEN /\ api_type' = "azure_ad"
              /\ startup' = "await_token"
              /\ UNCHANGED api_key
         ELSE /\ api_type' = "openai"
              /\ api_key' = OPENAI_API_KEY
              /\ startup' = "done"
    /\ UNCHANGED <<h, OPENAI_HOST, openai_token, now, startup_resp, issued, treq>>

(* The identity provider issues the token the startup call asked for.      *)
SetupIssue ==
    /\ startup = "await_token"
    /\ startup_resp = NoResponse
    /\ issued' = issued + 1
    /\ startup_resp' = AccessToken(issued + 1, now + TokenLifetime)
    /\ UNCHANGED <<h, OPENAI_HOST, api_type, api_key, openai_token, now, startup, treq>>

(* app.py:103-106: the await returns, key and stored token are assigned.   *)
SetupReturn ==
    /\ startup = "await_token"
    /\ startup_resp # NoResponse
    /\ api_key' = startup_resp.token
    /\ openai_token' = startup_resp
    /\ startup' = "done"
    /\ UNCHANGED <<h, OPENAI_HOST, api_type, now, startup_resp, issued, treq>>

(* app.py:103: get_token raises, the startup handler fails, no request is  *)
(* ever served.                                                            *)
SetupRaise ==
    /\ startup = "await_token"
    /\ startup_resp = NoResponse
    /\ startup' = "failed"
    /\ UNCHANGED <<h, OPENAI_HOST, api_type, api_key, openai_token, now,
                   startup_resp, issued, treq>>

(* ensure_openai_token, run once for every request before its route       *)
(* handler, up to its await (app.py:147-151) or to its return.             *)
EnsureOpenaiToken(r) ==
    /\ startup = "done"
    /\ treq[r].pc = "new"
    /\ IF api_type # "azure_ad"
         THEN treq' = [treq EXCEPT ![r].pc = "passed"]
         ELSE IF NeedsRefresh(openai_token, now)
                THEN treq' = [treq EXCEPT ![r].pc = "await_token",
                                          ![r].openai_token = openai_token,
                                          ![r].checked_at = now]
                ELSE treq' = [treq EXCEPT ![r].pc = "passed",
                                          ![r].openai_token = openai_token,
                                          ![r].checked_at = now]
    /\ UNCHANGED <<h, OPENAI_HOST, api_type, api_key, openai_token, now, startup,
                   startup_resp, issued>>

(* The identity provider issues the token request r's call asked for.      *)
ProviderIssue(r) ==
    /\ treq[r].pc = "await_token"
    /\ treq[r].resp = NoResponse
    /\ issued' = issued + 1
    /\ treq' = [treq EXCEPT ![r].resp = AccessToken(issued + 1, now + TokenLifetime)]
    /\ UNCHANGED <<h, OPENAI_HOST, api_type, api_key, openai_token, now, startup,
                   startup_resp>>

(* Variant: the stored token is replaced but the key assignment of        *)
(* app.py:155 has not happened by the next suspension point.               *)
GetTokenReturn_KeyNotAssigned(r) ==
    /\ treq[r].pc = "await_token"
    /\ treq[r].resp # NoResponse
    /\ openai_token' = treq[r].resp
    /\ treq' = [treq EXCEPT ![r].pc = "passed"]
    /\ UNCHANGED <<h, OPENAI_HOST, api_type, api_key, now, startup, startup_resp, issued>>

(* app.py:151-155: the await returns; stored token and key are replaced.   *)
GetTokenReturn(r) ==
    /\ treq[r].pc = "await_token"
    /\ treq[r].resp # NoResponse
    /\ openai_token' = treq[r].resp
    /\ api_key' = treq[r].resp.token
    /\ treq' = [treq EXCEPT ![r].pc = "passed"]
    /\ UNCHANGED <<h, OPENAI_HOST, api_type, now, startup, startup_resp, issued>>

(* app.py:151: get_token raises; the exception leaves the middleware and   *)
(* the request is answered with an error.                                  *)
GetTokenRaise(r) ==
    /\ treq[r].pc = "await_token"
    /\ treq[r].resp = NoResponse
    /\ treq' = [treq EXCEPT ![r].pc = "failed"]
    /\ UNCHANGED <<h, OPENAI_HOST, api_type, api_key, openai_token, now, startup,
                   startup_resp, issued>>

(* The request reaches its route handler and the LLM backend is called     *)
(* with the process-wide openai.api_key.                                   *)
Serve(r) ==
    /\ treq[r].pc = "passed"
    /\ treq' = [treq EXCEPT ![r].pc = "served", ![r].key_used = api_key]
    /\ UNCHANGED <<h, OPENAI_HOST, api_type, api_key, openai_token, now, startup,
                   startup_resp, issued>>

----------------------------------------------------------------------------
(* routes.py: the /ask and /chat handlers *)

MaxEvents == 2          \* events a streamed answer has at most

Handlers == {"h1", "h2"}

NL == "\n"

(* Texts carried by the events of a streamed answer *)
Events == {<<"a">>, <<"a", NL>>}

NoError == [type |-> "none", code |-> "none", text |-> "none"]

(* Exceptions approach.run or its generator can raise *)
ApproachErrors ==
    [type : {"InvalidRequestError"}, code : {"content_filter", "other"},
     text : {"t1", "t2"}]
    \cup [type : {"ResourceNotFoundError"}, code : {"none"}, text : {"t1", "t2"}]

(* request_json["messages"] on a payload without the field *)
KeyErrorMessages == [type |-> "KeyError", code |-> "none", text |-> "messages"]

(* routes.py:29 *)
ERROR_MESSAGE_FILTER ==
    <<"Your message contains content that was flagged by the OpenAI content filter.">>

(* routes.py:25-28, formatted with error_type *)
ERROR_MESSAGE(error_type) ==
    <<"The app encountered an error processing your request.", "Error type: ", error_type>>

(* Variant: the message is formatted with the exception instead of its type *)
error_dict_EchoesError(error) ==
    IF error.type = "InvalidRequestError" /\ error.code = "content_filter"
      THEN <<"error">> \o ERROR_MESSAGE_FILTER
      ELSE <<"error">> \o ERROR_MESSAGE(error.text)

(* routes.py:85-88 *)
error_dict(error) ==
    IF error.type = "InvalidRequestError" /\ error.code = "content_filter"
      THEN <<"error">> \o ERROR_MESSAGE_FILTER
      ELSE <<"error">> \o ERROR_MESSAGE(error.type)

(* routes.py:91-95: the pair (JSONResponse(error_dict(error)), status_code) *)
error_response(error) ==
    [kind |-> "error_response",
     status |-> IF error.type = "InvalidRequestError" /\ error.code = "content_filter"
                  THEN 400 ELSE 500,
     body |-> error_dict(error)]

NoResp == [kind |-> "none", status |-> 0, body |-> <<>>]

(* An exception that leaves the handler: the framework answers 500 *)
Uncaught == [kind |-> "uncaught", status |-> 500, body |-> <<"Internal Server Error">>]

(* json.dumps of a string: the characters between the quotes *)
RECURSIVE EscapeString(_)
EscapeString(s) ==
    IF s = <<>> THEN <<>>
    ELSE (IF Head(s) = NL THEN <<"\\", "n">> ELSE <<Head(s)>>) \o EscapeString(Tail(s))

(* json.dumps(item) of an event {"delta": text} *)
JsonDumps(item) == <<"{", "\"delta\": ", "\"">> \o EscapeString(item) \o <<"\"", "}">>

(* Variant: the newline after the record is missing *)
GenerateRecord_NoNewline(item) == JsonDumps(item)

(* routes.py:157  json.dumps(item).encode('utf-8') + b'\n' *)
GenerateRecord(item) == JsonDumps(item) \o <<NL>>

(* core.authentication.AuthenticationHelper.get_auth_claims_if_enabled:   *)
(* the claims resolved from the headers, the empty mapping when           *)
(* resolution fails.                                                      *)
get_auth_claims_if_enabled(outcome) ==
    IF outcome = "resolved" THEN {"group1"} ELSE {}

(* Variant: claims the caller put in the payload's context survive when    *)
(* the resolved claims are empty.                                          *)
SetAuthClaims_KeepsCallers(context, claims) ==
    IF claims = {} THEN context ELSE [context EXCEPT !.auth_claims = claims]

(* routes.py:109, 142  context["auth_claims"] = ... *)
SetAuthClaims(context, claims) == [context EXCEPT !.auth_claims = claims]

NewHandler ==
    [pc |-> "idle", route |-> "none", body |-> "none", has_messages |-> FALSE,
     stream |-> FALSE, context |-> [auth_claims |-> {}], resolution |-> "none",
     run_calls |-> 0, run_context |-> [auth_claims |-> {}], error |-> NoError,
     resp |-> NoResp, produced |-> <<>>, wire |-> <<>>, stream_end |-> "none"]

(* A request arrives: its route and its payload.  context is the payload's *)
(* "context" object, whose auth_claims key is whatever the caller sent.    *)
Receive(r) ==
    /\ h[r].pc = "idle"
    /\ \E route \in {"ask", "chat"}, body \in {"undecodable", "not_object", "object"},
          msgs \in BOOLEAN, stream \in BOOLEAN, sent \in {{}, {"admin"}} :
          /\ body # "object" => (~msgs /\ ~stream /\ sent = {})
          /\ h' = [h EXCEPT ![r].pc = "json", ![r].route = route, ![r].body = body,
                            ![r].has_messages = msgs, ![r].stream = stream,
                            ![r].context = [auth_claims |-> sent]]
    /\ UNCHANGED tokenVars

(* routes.py:101-109 and 134-142: from the return of request.json() to    *)
(* the await of get_auth_claims_if_enabled.                                *)
ParseJson(r) ==
    /\ h[r].pc = "json"
    /\ IF h[r].body = "undecodable"
         THEN h' = [h EXCEPT ![r].pc = "done",
                      ![r].resp = IF h[r].route = "ask"
                                    THEN [kind |-> "http_exception", status |-> 415,
                                          body |-> <<"request must be json">>]
                                    ELSE [kind |-> "json", status |-> 415,
                                          body |-> <<"error", "request must be json">>]]
         ELSE IF h[r].body = "not_object"
                THEN h' = [h EXCEPT ![r].pc = "done", ![r].resp = Uncaught]
                ELSE h' = [h EXCEPT ![r].pc = "claims"]
    /\ UNCHANGED tokenVars

----------------------------------------------------------------------------
TokenInit ==
    /\ OPENAI_HOST \in {"azure", "openai"}
    /\ api_type = "unset"
    /\ api_key = NoKey
    /\ openai_token = NoCredential
    /\ now = 0
    /\ startup = "init"
    /\ startup_resp = NoResponse
    /\ issued = 0
    /\ treq = [r \in Requests |-> NewRequest]
    /\ h = [r \in Handlers |-> NewHandler]

TokenNext ==
    \/ Tick
    \/ SetupClients
    \/ SetupIssue
    \/ SetupReturn
    \/ SetupRaise
    \/ \E r \in Requests : EnsureOpenaiToken(r)
    \/ \E r \in Requests : ProviderIssue(r)
    \/ \E r \in Requests : GetTokenReturn(r)
    \/ \E r \in Requests : GetTokenRaise(r)
    \/ \E r \in Requests : Serve(r)

SpecToken == TokenInit /\ [][TokenNext]_vars

(* Variant: the messages are read with .get, so a payload without them     *)
(* still reaches approach.run.                                             *)
CallApproach_MessagesOptional(r) ==
    /\ h[r].pc = "claims"
    /\ \E outcome \in {"resolved", "no_claims", "resolution_error"} :
         LET context == SetAuthClaims(h[r].context, get_auth_claims_if_enabled(outcome))
         IN  h' = [h EXCEPT ![r].pc = "run", ![r].resolution = outcome,
                            ![r].context = context,
                            ![r].run_calls = h[r].run_calls + 1,
                            ![r].run_context = context]
    /\ UNCHANGED tokenVars

(* routes.py:109-117 and 142-150: from the return of                       *)
(* get_auth_claims_if_enabled to the await of approach.run, or to the      *)
(* except clause when request_json["messages"] raises KeyError.            *)
CallApproach(r) ==
    /\ h[r].pc = "claims"
    /\ \E outcome \in {"resolved", "no_claims", "resolution_error"} :
         LET context == SetAuthClaims(h[r].context, get_auth_claims_if_enabled(outcome))
         IN  IF h[r].has_messages
               THEN h' = [h EXCEPT ![r].pc = "run", ![r].resolution = outcome,
                                   ![r].context = context,
                                   ![r].run_calls = h[r].run_calls + 1,
                                   ![r].run_context = context]
               ELSE h' = [h EXCEPT ![r].pc = "done", ![r].resolution = outcome,
                                   ![r].context = context,
                                   ![r].error = KeyErrorMessages,
                                   ![r].resp = error_response(KeyErrorMessages)]
    /\ UNCHANGED tokenVars

(* routes.py:115-120 and 145-165: approach.run raises, and the except      *)
(* clause answers with error_response.                                     *)
RunRaises(r) ==
    /\ h[r].pc = "run"
    /\ \E e \in ApproachErrors :
         h' = [h EXCEPT ![r].pc = "done", ![r].error = e, ![r].resp = error_response(e)]
    /\ UNCHANGED tokenVars

(* routes.py:118 and 151-159: approach.run returns.  A dict is answered as *)
(* JSON; anything else /chat wraps in StreamingResponse(generate()).       *)
RunReturns(r) ==
    /\ h[r].pc = "run"
    /\ IF h[r].route = "chat" /\ h[r].stream
         THEN h' = [h EXCEPT ![r].pc = "pull", ![r].stream_end = "open",
                             ![r].resp = [kind |-> "stream", status |-> 200, body |-> <<>>]]
         ELSE h' = [h EXCEPT ![r].pc = "done",
                             ![r].resp = [kind |-> "json", status |-> 200,
                                          body |-> <<"answer">>]]
    /\ UNCHANGED tokenVars

(* routes.py:156: generate asks the producer for its next item and gets    *)
(* one.                                                                    *)
GeneratePull(r) ==
    /\ h[r].pc = "pull"
    /\ Len(h[r].produced) < MaxEvents
    /\ \E item \in Events :
         h' = [h EXCEPT ![r].pc = "yield", ![r].produced = Append(h[r].produced, item)]
    /\ UNCHANGED tokenVars

(* routes.py:157: generate yields the record of the item it holds.         *)
GenerateYield(r) ==
    /\ h[r].pc = "yield"
    /\ h' = [h EXCEPT ![r].pc = "pull",
                      ![r].wire = Append(h[r].wire,
                                         GenerateRecord(h[r].produced[Len(h[r].produced)]))]
    /\ UNCHANGED tokenVars

(* routes.py:156: the producer is exhausted, generate returns and the      *)
(* response body ends.                                                     *)
GenerateEnd(r) ==
    /\ h[r].pc = "pull"
    /\ h' = [h EXCEPT ![r].pc = "done", ![r].stream_end = "closed"]
    /\ UNCHANGED tokenVars

(* routes.py:156: the producer raises; generate has no handler, the        *)
(* exception leaves it and the response body is cut off.                   *)
GenerateRaises(r) ==
    /\ h[r].pc = "pull"
    /\ \E e \in ApproachErrors :
         h' = [h EXCEPT ![r].pc = "done", ![r].stream_end = "aborted", ![r].error = e]
    /\ UNCHANGED tokenVars

RoutesInit == TokenInit

RoutesNext ==
    \/ \E r \in Handlers : Receive(r)
    \/ \E r \in Handlers : ParseJson(r)
    \/ \E r \in Handlers : CallApproach(r)
    \/ \E r \in Handlers : RunRaises(r)
    \/ \E r \in Handlers : RunReturns(r)
    \/ \E r \in Handlers : GeneratePull(r)
    \/ \E r \in Handlers : GenerateYield(r)
    \/ \E r \in Handlers : GenerateEnd(r)
    \/ \E r \in Handlers : GenerateRaises(r)

SpecRoutes == RoutesInit /\ [][RoutesNext]_vars

----------------------------------------------------------------------------
(* Properties of the token check *)

InFlight == {r \in Requests : treq[r].pc = "await_token"}

(* C1: at most one credential refresh (get_token call made by a request)   *)
(* is in flight at any time.                                               *)
C1_SingleFlight == Cardinality(InFlight) <= 1

(* C2: the expires_on of the stored Credential never decreases, whatever   *)
(* the order in which concurrent refreshes complete.                       *)
C2_ExpiryMonotonic ==
    [][openai_token'.expires_on >= openai_token.expires_on]_vars

(* C3: in azure_ad mode, whenever a Credential is stored, the key used for *)
(* LLM calls is the token of the stored Credential, at every point where   *)
(* another request can run.                                                *)
C3_NeverTorn ==
    (api_type = "azure_ad" /\ openai_token # NoCredential)
        => api_key = openai_token.token

(* A refresh has replaced the Credential while another request's refresh   *)
(* is still awaiting the provider.                                         *)
C3_Witness ==
    \E r, q \in Requests :
        /\ r # q
        /\ treq[r].pc = "passed"
        /\ treq[r].resp # NoResponse
        /\ openai_token = treq[r].resp
        /\ treq[q].pc = "await_token"

(* C4: when the provider call of request r's refresh fails, the stored     *)
(* Credential and the key are as they were before that refresh started,    *)
(* only r is failed, and every other request that finishes afterwards is   *)
(* served, with the Credential held before r's refresh.                    *)
C4_FailureIsolated ==
    [][\A r \in Requests :
         /\ (treq[r].pc = "await_token" /\ treq'[r].pc = "failed")
              => /\ openai_token' = treq[r].openai_token
                 /\ api_key' = treq[r].openai_token.token
                 /\ \A q \in Requests \ {r} : treq'[q] = treq[q]
         /\ treq[r].pc = "failed"
              => \A q \in Requests \ {r} :
                   treq'[q].pc # treq[q].pc
                     => /\ treq'[q].pc # "failed"
                        /\ treq'[q].pc = "served"
                             => treq'[q].key_used = treq[r].openai_token.token
      ]_vars

(* C10: the token check of a request starts a refresh exactly when the     *)
(* mode is azure_ad and expires_on - now < 60; otherwise it makes no       *)
(* provider call and leaves the stored Credential and the key unchanged.   *)
C10_RefreshExactlyWhenDue ==
    [][\A r \in Requests :
         (treq[r].pc = "new" /\ treq'[r].pc # "new")
           => LET due == /\ api_type = "azure_ad"
                         /\ openai_token.expires_on - now < REFRESH_MARGIN
              IN  /\ (treq'[r].pc = "await_token") <=> due
                  /\ ~due => /\ treq'[r].pc = "passed"
                             /\ openai_token' = openai_token
                             /\ api_key' = api_key
                             /\ issued' = issued
                             /\ InFlight' = InFlight
      ]_vars

(* One request passed the check with exactly 60s left and made no call,    *)
(* another started a refresh with 59s left.                                *)
C10_Witness ==
    \E r, q \in Requests :
        /\ treq[r].pc \in {"passed", "served"}
        /\ treq[r].resp = NoResponse
        /\ treq[r].openai_token.expires_on - treq[r].checked_at = REFRESH_MARGIN
        /\ treq[q].pc = "await_token"
        /\ treq[q].openai_token.expires_on - treq[q].checked_at = REFRESH_MARGIN - 1

----------------------------------------------------------------------------
(* Properties of the /ask and /chat handlers *)

Streamed(r) == h[r].stream_end # "none"

(* The records generate produces for a sequence of items *)
RecordsOf(items) == [i \in 1..Len(items) |-> JsonDumps(items[i]) \o <<NL>>]

(* C5: when the producer of a streamed /chat answer raises, the output is  *)
(* the records already emitted followed by exactly one error record.       *)
C5_TerminalErrorRecord ==
    \A r \in Handlers :
        (Streamed(r) /\ h[r].error # NoError)
            => /\ h[r].pc = "done"
               /\ h[r].wire = RecordsOf(h[r].produced) \o <<error_dict(h[r].error)>>

(* C6: the wire output of a stream is, record by record and in order, the  *)
(* serialization of the producer's events, each ended by its only newline; *)
(* an event is pulled only once the record of the one before is out, and   *)
(* a stream that ends normally carries a record for every event.           *)
C6_OrderedRecords ==
    \A r \in Handlers :
        Streamed(r) =>
            LET produced == h[r].produced
                wire == h[r].wire
            IN  /\ Len(wire) = IF h[r].pc = "yield" THEN Len(produced) - 1 ELSE Len(produced)
                /\ \A i \in 1..Len(wire) :
                     /\ wire[i] = JsonDumps(produced[i]) \o <<NL>>
                     /\ \A k \in 1..Len(wire[i]) : (wire[i][k] = NL) <=> (k = Len(wire[i]))
                /\ h[r].stream_end = "closed" => wire = RecordsOf(produced)

(* A stream of two different events, one with a newline in its text, has   *)
(* ended normally.                                                         *)
C6_Witness ==
    \E r \in Handlers :
        /\ h[r].stream_end = "closed"
        /\ Len(h[r].wire) >= 2
        /\ h[r].produced[1] = <<"a", NL>>
        /\ h[r].produced[2] = <<"a">>

C8_MalformedNeverRuns ==
    \A r \in Handlers :
        (h[r].body \in {"object", "not_object"} /\ ~h[r].has_messages)
            => /\ h[r].run_calls = 0
               /\ h[r].pc \notin {"run", "pull", "yield"}
               /\ h[r].pc = "done"
                    => /\ h[r].resp.status >= 400
                       /\ h[r].body = "object" => h[r].resp.body[1] = "error"

(* An /ask and a /chat request with a JSON object without messages have    *)
(* both been answered.                                                     *)
C8_Witness ==
    \E r, q \in Handlers :
        /\ h[r].route = "ask" /\ h[q].route = "chat"
        /\ h[r].body = "object" /\ h[q].body = "object"
        /\ ~h[r].has_messages /\ ~h[q].has_messages
        /\ h[r].pc = "done" /\ h[q].pc = "done"

IsContentFilter(e) == e.type = "InvalidRequestError" /\ e.code = "content_filter"

ErrorAnswered(r) == h[r].resp.kind = "error_response" /\ h[r].error # NoError

(* C9: the error payload is the content-filter message exactly for a       *)
(* content-filter rejection; otherwise it depends on the exception's type  *)
(* only, and differs from the content-filter payload.                      *)
C9_ErrorPayload ==
    \A r, q \in Handlers :
        ErrorAnswered(r) =>
            /\ (h[r].resp.body = <<"error">> \o ERROR_MESSAGE_FILTER)
                   <=> IsContentFilter(h[r].error)
            /\ (/\ ErrorAnswered(q)
                /\ ~IsContentFilter(h[r].error) /\ ~IsContentFilter(h[q].error)
                /\ h[r].error.type = h[q].error.type)
                   => h[r].resp.body = h[q].resp.body
            /\ (ErrorAnswered(q) /\ IsContentFilter(h[r].error) /\ ~IsContentFilter(h[q].error))
                   => h[r].resp.body # h[q].resp.body

(* Two requests failed with exceptions of one type and different texts,    *)
(* neither a content-filter rejection.                                     *)
C9_Witness ==
    \E r, q \in Handlers :
        /\ ErrorAnswered(r) /\ ErrorAnswered(q)
        /\ h[r].error.type = h[q].error.type
        /\ h[r].error.text # h[q].error.text
        /\ ~IsContentFilter(h[r].error) /\ ~IsContentFilter(h[q].error)
====
